---- MODULE Spec2Model ----
(***************************************************************************)
(* Model of the podcast subtitle pipeline (namse/podcast):                 *)
(*   step 1  GeminiTextSplitter   text split + content integrity           *)
(*   step 2  Wav2Vec2Timer        length-proportional time allocation      *)
(*   step 3  WebVTTGenerator      timing repair, serialization, check      *)
(*   step 4  SubtitleGrouper      parsing and reconciliation of groups     *)
(*   runner  NewPipelineManager   the commands "all" and "from"            *)
(* Each step is a separate program; each has its own specification over    *)
(* its own variables, the other steps' variables resting at their idle     *)
(* values.                                                                 *)
(*                                                                         *)
(* Strings are sequences of one-character strings. Times of step 2 are     *)
(* exact rationals: total_duration is an integer number of milliseconds    *)
(* and every intermediate time is kept as an integer multiple of           *)
(* (1 / total_text_length) ms, so that the proportional share              *)
(* len / total_text_length * total_duration is exact. Times written to the *)
(* step-2 output (round(x, 2)) and read by step 4 are integer              *)
(* centiseconds. Times of step 3 are integer thirds of a millisecond.      *)
(***************************************************************************)
EXTENDS Integers, Sequences, FiniteSets, TLC

VARIABLES
    \* step 1: GeminiTextSplitter.validate_content_integrity, called alone
    vi_pc,              \* "idle" | "call" | "returned"
    vi_original_text,   \* the argument original_text
    vi_split_texts,     \* the argument split_texts
    vi_is_match,        \* the value returned
    vi_debug_file,      \* whether debug_content_mismatch.txt was written
    \* step 1: GeminiTextSplitter.process_text_file
    s1_pc,              \* "idle" | "loop" | "exit1" | "crashed" | "done"
    s1_lines,           \* the stripped non-empty lines of the input file
    s1_i,               \* the loop variable i of range(0, len(lines), 4)
    s1_response,        \* the oracle's last answer, or where it raised
    s1_returned,        \* what each split_and_refine_text call returned
    s1_all_subtitles,   \* all_subtitles
    s1_oracle_calls,    \* the chat.send_message calls made so far
    s1_error,           \* the failure printed before exit, "none" if none
    s1_output,          \* the subtitles of the output JSON, once written
    s1_output_written,  \* whether the output JSON was written
    s1_debug_file,      \* whether debug_content_mismatch.txt was written
    \* step 2: Wav2Vec2Timer.find_subtitle_times
    s2_pc,              \* "idle" | "loop" | "done"
    s2_subtitles,       \* the cue texts, each as its len()
    s2_total_duration,  \* transcriptions[-1]["end"], in ms
    s2_result,          \* the cues appended so far
    s2_current_time,    \* in units of 1/total_text_length ms
    \* step 3: WebVTTGenerator, main with --check-vtt
    s3_pc,              \* "idle" | "start" | "written" | "checked"
    s3_input,           \* data["subtitles"] of the input JSON
    s3_validate,        \* args.validate
    s3_subtitles,       \* subtitles after the optional repair
    s3_content,         \* the lines of the file written
    s3_stats,           \* what validate_webvtt_file returned
    \* step 4: SubtitleGrouper.process_subtitles
    s4_pc,              \* "idle" | "start" | "analyzed" | "failed" | "done"
    s4_subtitles,       \* the timed cues of data["subtitles"]
    s4_response,        \* the oracle's answer, line by line, or the failure
    s4_groups,          \* what analyze_and_group_subtitles returned
    s4_validated,       \* what validate_groups returned
    \* pipeline.py: main with the command "all" or "from"
    pl_pc,              \* "idle" | "running" | "exit0" | "exit1"
    pl_command,         \* args.command
    pl_step_num,        \* the step the loop is about to run
    pl_files,           \* the files that exist under base_dir
    pl_launched         \* the subprocesses run so far, in order

varsI == <<vi_pc, vi_original_text, vi_split_texts, vi_is_match, vi_debug_file>>
vars1 == <<s1_pc, s1_lines, s1_i, s1_response, s1_returned, s1_all_subtitles,
           s1_oracle_calls, s1_error, s1_output, s1_output_written,
           s1_debug_file>>
vars2 == <<s2_pc, s2_subtitles, s2_total_duration, s2_result, s2_current_time>>
vars3 == <<s3_pc, s3_input, s3_validate, s3_subtitles, s3_content, s3_stats>>
vars4 == <<s4_pc, s4_subtitles, s4_response, s4_groups, s4_validated>>
varsP == <<pl_pc, pl_command, pl_step_num, pl_files, pl_launched>>
vars == <<varsI, vars1, vars2, vars3, vars4, varsP>>

\* ------------------------------------------------------------------ bounds

\* Largest length of a text given to validate_content_integrity alone.
MaxTextLen == 3
\* Largest number of lines of a step-1 input file.
MaxFileLines == 5
\* Largest number of cues of a step-2 run.
MaxCues == 3
\* Largest number of cues of a list given to the step-3 repair.
MaxRepairCues == 2
\* Largest number of cues of a well-formed track given to step 3.
MaxVttCues == 2
\* Largest number of cues of a step-4 run.
MaxGroupCues == 3
\* Largest number of lines of the grouping oracle's answer.
MaxLines == 2
\* The lines after the header of a file given to validate_webvtt_file.
MaxBodyLines == 5

\* ----------------------------------------------------------------- helpers

RECURSIVE SumSeq(_)
SumSeq(s) == IF s = <<>> THEN 0 ELSE Head(s) + SumSeq(Tail(s))

Abs(x) == IF x < 0 THEN -x ELSE x

Last(s) == s[Len(s)]

\* All sequences over S of length 0..n.
SeqsUpTo(S, n) == UNION {[1..k -> S] : k \in 0..n}

\* ============================================================== step 1
\* GeminiTextSplitter

\* The characters of the model's texts; \s matches the last three.
Letters == {"a", "b"}
Whitespace == {" ", "\n", "\t"}
Alphabet == {"a", "b", " ", "\n"}

IsSpace(c) == c \in Whitespace

\* str.lstrip(), str.rstrip(), str.strip()
RECURSIVE LStrip(_)
LStrip(s) ==
    IF s = <<>> THEN <<>>
    ELSE IF IsSpace(Head(s)) THEN LStrip(Tail(s)) ELSE s

RECURSIVE RStrip(_)
RStrip(s) ==
    IF s = <<>> THEN <<>>
    ELSE IF IsSpace(Last(s)) THEN RStrip(SubSeq(s, 1, Len(s) - 1)) ELSE s

Strip(s) == RStrip(LStrip(s))

\* re.sub(r'\s+', '', text): every maximal run of whitespace is cut out.
RECURSIVE RemoveSpaceRuns(_)
RemoveSpaceRuns(s) ==
    IF s = <<>> THEN <<>>
    ELSE IF IsSpace(Head(s)) THEN RemoveSpaceRuns(LStrip(s))
    ELSE <<Head(s)>> \o RemoveSpaceRuns(Tail(s))

StripOnly(text) == Strip(text)

\* normalize_text
normalize_text(text) == Strip(RemoveSpaceRuns(text))

\* ''.join(parts)
RECURSIVE JoinAll(_)
JoinAll(parts) ==
    IF parts = <<>> THEN <<>> ELSE Head(parts) \o JoinAll(Tail(parts))

SameLength(original_text, split_texts) ==
    Len(normalize_text(original_text)) = Len(normalize_text(JoinAll(split_texts)))

\* validate_content_integrity: is_match
validate_content_integrity(original_text, split_texts) ==
    normalize_text(original_text) = normalize_text(JoinAll(split_texts))

\* The texts of length 0..n.
Texts(n) == SeqsUpTo(Alphabet, n)

\* The ways to cut a text into non-empty pieces, the cuts after the
\* positions of a set c.
RECURSIVE CutAt(_, _, _)
CutAt(text, c, from) ==
    IF from > Len(text) THEN <<>>
    ELSE LET later == {k \in c : k >= from}
             to == IF later = {} THEN Len(text)
                   ELSE CHOOSE k \in later : \A j \in later : k <= j
         IN  <<SubSeq(text, from, to)>> \o CutAt(text, c, to + 1)

PieceLists(n) ==
    UNION {{CutAt(t, c, 1) : c \in SUBSET (1..(Len(t) - 1))} : t \in Texts(n)}

InitI ==
    /\ vi_pc = "call"
    /\ vi_original_text \in Texts(MaxTextLen)
    /\ vi_split_texts \in PieceLists(MaxTextLen)
    /\ vi_is_match = FALSE
    /\ vi_debug_file = FALSE

IdleI ==
    /\ vi_pc = "idle"
    /\ vi_original_text = <<>>
    /\ vi_split_texts = <<>>
    /\ vi_is_match = FALSE
    /\ vi_debug_file = FALSE

\* validate_content_integrity(original_text, split_texts), from call to return.
ValidateContentIntegrity ==
    /\ vi_pc = "call"
    /\ LET is_match == validate_content_integrity(vi_original_text, vi_split_texts)
       IN  /\ vi_is_match' = is_match
           /\ vi_debug_file' = ~is_match
    /\ vi_pc' = "returned"
    /\ UNCHANGED <<vi_original_text, vi_split_texts>>

\* ------------------------------------------- validate_content_integrity: claims

\* The text without its whitespace characters.
NonSpace(text) == SelectSeq(text, LAMBDA c : c \notin {" ", "\n", "\t"})

\* C3: validate_content_integrity(original, pieces) is true exactly when
\* original without its whitespace characters equals the concatenation of
\* pieces without its whitespace characters.
C3_IntegrityIffEqualContent ==
    vi_pc = "returned" =>
        (vi_is_match <=> NonSpace(vi_original_text) = NonSpace(JoinAll(vi_split_texts)))

\* C3 witness: two letters reordered across two pieces are rejected.
C3_WitnessReordered ==
    /\ vi_pc = "returned"
    /\ ~vi_is_match
    /\ Len(vi_split_texts) = 2
    /\ NonSpace(vi_original_text) = <<"a", "b">>
    /\ NonSpace(JoinAll(vi_split_texts)) = <<"b", "a">>

\* ------------------------------------------------------ process_text_file

\* batch_size = 4
BatchSize == 4
\* len(lines) > 3 and len(line) > 25
MaxPieceLines == 3
MaxLineChars == 25

\* str.split(sep)
RECURSIVE SplitFrom(_, _, _)
SplitFrom(s, sep, cur) ==
    IF s = <<>> THEN <<cur>>
    ELSE IF Len(s) >= Len(sep) /\ SubSeq(s, 1, Len(sep)) = sep
    THEN <<cur>> \o SplitFrom(SubSeq(s, Len(sep) + 1, Len(s)), sep, <<>>)
    ELSE SplitFrom(Tail(s), sep, Append(cur, Head(s)))

Split(s, sep) == SplitFrom(s, sep, <<>>)

\* sep.join(parts)
RECURSIVE Join(_, _)
Join(parts, sep) ==
    IF parts = <<>> THEN <<>>
    ELSE IF Len(parts) = 1 THEN Head(parts)
    ELSE Head(parts) \o sep \o Join(Tail(parts), sep)

\* [part.strip() for part in refined_result.split('\n\n') if part.strip()]
SplitTexts(refined_result) ==
    LET parts == Split(refined_result, <<"\n", "\n">>)
        stripped == [k \in 1..Len(parts) |-> Strip(parts[k])]
    IN  SelectSeq(stripped, LAMBDA part : part # <<>>)

NeverTooManyLines(text_part) == FALSE

\* len(lines) > 3
TooManyLines(text_part) == Len(Split(text_part, <<"\n">>)) > MaxPieceLines

NeverTooLong(text_part) == FALSE

\* some line of the piece has len(line) > 25
LineTooLong(text_part) ==
    LET lines == Split(text_part, <<"\n">>)
    IN  \E j \in 1..Len(lines) : Len(lines[j]) > MaxLineChars

\* The "글자 수 검증" loop: the failure of the first piece that has one.
RECURSIVE FirstViolation(_, _)
FirstViolation(split_texts, i) ==
    IF i > Len(split_texts) THEN "none"
    ELSE IF TooManyLines(split_texts[i]) THEN "too_many_lines"
    ELSE IF LineTooLong(split_texts[i]) THEN "line_too_long"
    ELSE FirstViolation(split_texts, i + 1)

Failed(error, calls, debug) ==
    [error |-> error, pieces |-> <<>>, calls |-> calls, debug |-> debug]

\* split_and_refine_text(text), the oracle answering `response`: the list
\* returned, or the failure printed before sys.exit(1); the send_message
\* calls made; whether the debug file was written.
split_and_refine_text(text, response) ==
    IF response.raised_at = 1 THEN Failed("api_error", 1, FALSE)
    ELSE IF response.raised_at = 2 THEN Failed("api_error", 2, FALSE)
    ELSE LET refined_result == Strip(response.text)
             split_texts == SplitTexts(refined_result)
         IN  IF split_texts = <<>> THEN Failed("no_split", 2, FALSE)
             ELSE IF ~validate_content_integrity(text, split_texts)
             THEN Failed("content_mismatch", 2, TRUE)
             ELSE IF FirstViolation(split_texts, 1) # "none"
             THEN Failed(FirstViolation(split_texts, 1), 2, FALSE)
             ELSE [error |-> "none", pieces |-> split_texts, calls |-> 2,
                   debug |-> FALSE]

\* The lines of the input files, and the files.
InputLines == {<<"a", "b">>, <<"a", " ", "b">>, <<"b", "a">>}
InputFiles == SeqsUpTo(InputLines, MaxFileLines)

\* The maximal runs of non-whitespace characters of a text.
RECURSIVE WordsFrom(_, _)
WordsFrom(s, cur) ==
    LET done == IF cur = <<>> THEN <<>> ELSE <<cur>>
    IN  IF s = <<>> THEN done
        ELSE IF IsSpace(Head(s)) THEN done \o WordsFrom(Tail(s), <<>>)
        ELSE WordsFrom(Tail(s), Append(cur, Head(s)))

Words(s) == WordsFrom(s, <<>>)

\* The words in cues of g lines: a line break after each word, a blank
\* line after every g-th.
RECURSIVE Grouped(_, _, _)
Grouped(words, g, k) ==
    IF words = <<>> THEN <<>>
    ELSE IF Len(words) = 1 THEN Head(words)
    ELSE IF k + 1 = g
    THEN Head(words) \o <<"\n", "\n">> \o Grouped(Tail(words), g, 0)
    ELSE Head(words) \o <<"\n">> \o Grouped(Tail(words), g, k + 1)

\* A run of 25 spaces.
Wide == [k \in 1..MaxLineChars |-> " "]

\* The words on one line, the first gap a wide one.
SpreadWide(words) ==
    IF Len(words) < 2 THEN Join(words, <<" ">>)
    ELSE Head(words) \o Wide \o Join(Tail(words), <<" ">>)

OtherLetter(c) == IF c = "a" THEN "b" ELSE "a"

\* What the oracle may answer to a batch text: the words of the text in
\* cues of 1 to 4 lines, on one line, on one line with a wide gap; the text
\* with its last character dropped, with a character added, with its first
\* character replaced, with its first two characters swapped; nothing.
SplitAnswers(text) ==
    LET words == Words(text)
    IN  {Grouped(words, g, 0) : g \in 1..(MaxPieceLines + 1)}
        \cup {Join(words, <<" ">>), SpreadWide(words)}
        \cup {SubSeq(text, 1, Len(text) - 1),
              Append(text, "b"),
              <<OtherLetter(Head(text))>> \o Tail(text),
              <<text[2], text[1]>> \o SubSeq(text, 3, Len(text))}
        \cup {<<>>, <<" ", "\n", "\n", " ">>}

NoSplitResponse == [raised_at |-> 0, text |-> <<>>]

\* chat.send_message twice: the refined answer, or the call that raised.
SplitResponses(text) ==
    {[raised_at |-> 0, text |-> a] : a \in SplitAnswers(text)}
    \cup {[raised_at |-> 1, text |-> <<>>], [raised_at |-> 2, text |-> <<>>]}

Min(a, b) == IF a <= b THEN a ELSE b

\* batch_text of the batch that starts at lines[i] (0-based i).
BatchTextAt(lines, i) ==
    Join(SubSeq(lines, i + 1, Min(i + BatchSize, Len(lines))), <<"\n">>)

\* result_data["subtitles"]
OutputOf(all_subtitles) ==
    [k \in 1..Len(all_subtitles) |->
        [index |-> k,
         text |-> all_subtitles[k],
         char_count |-> Len(all_subtitles[k]),
         line_count |-> Len(Split(all_subtitles[k], <<"\n">>))]]

\* A list that takes each batch's pieces in front of the earlier ones.
ExtendInFront(all_subtitles, batch_subtitles) ==
    batch_subtitles \o all_subtitles

\* all_subtitles.extend(batch_subtitles)
Extend(all_subtitles, batch_subtitles) == all_subtitles \o batch_subtitles

Init1 ==
    /\ s1_pc = "loop"
    /\ s1_lines \in InputFiles
    /\ s1_i = 0
    /\ s1_response = NoSplitResponse
    /\ s1_returned = <<>>
    /\ s1_all_subtitles = <<>>
    /\ s1_oracle_calls = 0
    /\ s1_error = "none"
    /\ s1_output = <<>>
    /\ s1_output_written = FALSE
    /\ s1_debug_file = FALSE

\* One iteration of the batch loop of process_text_file: the call of
\* split_and_refine_text on the next four lines.
ProcessBatch ==
    /\ s1_pc = "loop"
    /\ s1_i < Len(s1_lines)
    /\ \E response \in SplitResponses(BatchTextAt(s1_lines, s1_i)) :
          LET r == split_and_refine_text(BatchTextAt(s1_lines, s1_i), response)
          IN  /\ s1_response' = response
              /\ s1_oracle_calls' = s1_oracle_calls + r.calls
              /\ s1_debug_file' = (s1_debug_file \/ r.debug)
              /\ IF r.error = "none"
                 THEN /\ s1_returned' = Append(s1_returned, r.pieces)
                      /\ s1_all_subtitles' = Extend(s1_all_subtitles, r.pieces)
                      /\ s1_i' = s1_i + BatchSize
                      /\ UNCHANGED <<s1_pc, s1_error>>
                 ELSE /\ s1_pc' = "exit1"
                      /\ s1_error' = r.error
                      /\ UNCHANGED <<s1_returned, s1_all_subtitles, s1_i>>
    /\ UNCHANGED <<s1_lines, s1_output, s1_output_written>>

\* process_text_file after the loop: the output JSON is written, then the
\* whole text is validated, then the statistics are printed (a division by
\* len(char_counts), which raises when there is no subtitle).
FinishFile ==
    /\ s1_pc = "loop"
    /\ s1_i >= Len(s1_lines)
    /\ s1_output' = OutputOf(s1_all_subtitles)
    /\ s1_output_written' = TRUE
    /\ LET original_all == Join(s1_lines, <<"\n">>)
       IN  IF ~validate_content_integrity(original_all, s1_all_subtitles)
           THEN /\ s1_pc' = "exit1"
                /\ s1_error' = "total_mismatch"
                /\ s1_debug_file' = TRUE
           ELSE /\ s1_pc' = IF s1_all_subtitles = <<>> THEN "crashed" ELSE "done"
                /\ UNCHANGED <<s1_error, s1_debug_file>>
    /\ UNCHANGED <<s1_lines, s1_i, s1_response, s1_returned, s1_all_subtitles,
                   s1_oracle_calls>>

Next1 ==
    \/ ProcessBatch /\ UNCHANGED <<varsI, vars2, vars3, vars4, varsP>>
    \/ FinishFile /\ UNCHANGED <<varsI, vars2, vars3, vars4, varsP>>

\* ------------------------------------------- process_text_file: claims

\* The text of the k-th batch (k from 1).
BatchText(k) == BatchTextAt(s1_lines, (k - 1) * BatchSize)

Flatten(lists) == JoinAll(lists)

\* The pieces the oracle's last answer splits into.
LastSplit == SplitTexts(Strip(s1_response.text))

LineCount(piece) == Len(Split(piece, <<"\n">>))

WithinLimits(piece) ==
    /\ LineCount(piece) <= 3
    /\ \A j \in 1..LineCount(piece) : Len(Split(piece, <<"\n">>)[j]) <= 25

\* C4: when the integrity check of a batch fails the run ends with exit
\* status 1: the batch's pieces are not returned, no later batch is sent to
\* the oracle and the output JSON is not written; every batch that was
\* returned, and so every batch of a written output, has the normalized
\* content of its batch text.
C4_IntegrityFailureAborts ==
    /\ \A k \in 1..Len(s1_returned) :
          NonSpace(BatchText(k)) = NonSpace(JoinAll(s1_returned[k]))
    /\ s1_all_subtitles = Flatten(s1_returned)
    /\ s1_output_written =>
          [k \in 1..Len(s1_output) |-> s1_output[k].text] = Flatten(s1_returned)
    /\ s1_error = "content_mismatch" =>
          /\ s1_pc = "exit1"
          /\ ~s1_output_written
          /\ s1_i = Len(s1_returned) * BatchSize
          /\ s1_oracle_calls = 2 * (Len(s1_returned) + 1)
          /\ ~ENABLED Next1

\* C4 witness: the first batch of a file of two batches failed the check.
C4_Witness ==
    /\ s1_error = "content_mismatch"
    /\ s1_returned = <<>>
    /\ Len(s1_lines) > BatchSize
    /\ NonSpace(BatchText(1)) # NonSpace(JoinAll(LastSplit))

\* C5: every piece the splitting stage returned, and every cue of the
\* step-1 output, has at most 3 lines of at most 25 characters each.
C5_PiecesWithinLimits ==
    /\ \A k \in 1..Len(s1_all_subtitles) : WithinLimits(s1_all_subtitles[k])
    /\ \A k \in 1..Len(s1_output) : WithinLimits(s1_output[k].text)

\* C5 witness: an output was written that holds a cue of three lines, the
\* oracle having been asked for two batches.
C5_Witness ==
    /\ s1_pc = "done"
    /\ Len(s1_returned) = 2
    /\ \E k \in 1..Len(s1_output) : s1_output[k].line_count = 3

ConstraintErrors == {"no_split", "too_many_lines", "line_too_long"}

\* The oracle's last answer is no usable split, or holds a piece beyond
\* the limits.
LastAnswerViolates ==
    /\ s1_oracle_calls > 0
    /\ s1_response.raised_at = 0
    /\ \/ LastSplit = <<>>
       \/ \E k \in 1..Len(LastSplit) : ~WithinLimits(LastSplit[k])

\* C6 as stated: a split beyond the limits, or no usable split, is repaired
\* and the run goes on (the batch texts of the model are all of short
\* words, which a rule-based segmenter can always lay out legally).
C6_ViolationRepaired ==
    ~(s1_pc = "exit1" /\ s1_error \in ConstraintErrors)

\* C6 as amended: a split beyond the limits, or no usable split, ends the
\* run with exit status 1: nothing is repaired, the batch's pieces are not
\* returned and the output is not written.
C6_ViolationAborts ==
    /\ LastAnswerViolates =>
          /\ s1_pc = "exit1"
          /\ s1_error \in ConstraintErrors \cup {"content_mismatch"}
          /\ ~ENABLED Next1
    /\ (s1_error \in ConstraintErrors) =>
          /\ LastAnswerViolates
          /\ s1_pc = "exit1"
          /\ ~s1_output_written
          /\ s1_all_subtitles = Flatten(s1_returned)
          /\ s1_i = Len(s1_returned) * BatchSize

\* C6 witness: the second batch's answer was content-true and had a line
\* of more than 25 characters.
C6_Witness ==
    /\ s1_error = "line_too_long"
    /\ Len(s1_returned) = 1
    /\ NonSpace(BatchText(2)) = NonSpace(JoinAll(LastSplit))

\* C25: the batches are handled in input order and each batch's pieces are
\* appended in that order, so when every returned batch passed
\* validate_content_integrity against its own batch text, the whole-file
\* check (all lines joined against all pieces) passes as well: the run never
\* ends on the whole-file mismatch once the output has been written.
C25_IntegrityComposes ==
    /\ s1_error # "total_mismatch"
    /\ s1_all_subtitles = Flatten(s1_returned)
    /\ (/\ s1_output_written
        /\ \A k \in 1..Len(s1_returned) :
              validate_content_integrity(BatchText(k), s1_returned[k]))
       => /\ validate_content_integrity(Join(s1_lines, <<"\n">>),
                                        s1_all_subtitles)
          /\ s1_pc \in {"done", "crashed"}
          /\ Len(s1_returned) * BatchSize >= Len(s1_lines)

\* C25 witness: a file of two batches was split and its output written and
\* checked; the two batch texts in the other order are another content.
C25_Witness ==
    /\ s1_pc = "done"
    /\ Len(s1_returned) = 2
    /\ NonSpace(BatchText(1)) \o NonSpace(BatchText(2))
           # NonSpace(BatchText(2)) \o NonSpace(BatchText(1))

\* ============================================================== step 2
\* Wav2Vec2Timer.find_subtitle_times

\* min_duration = 0.5 and the 5.0 of min(duration, 5.0), in ms.
MinDurationMs == 500
MaxDurationMs == 5000

\* The text lengths and audio lengths (ms) a run is started with.
TextLengths == {1, 10, 30}
AudioLengthsMs == {700, 1000, 12346, 100000}

total_text_length == SumSeq(s2_subtitles)

\* duration = min(max(0.5, text_length / total_text_length * total_duration), 5.0)
\* scaled by total_text_length: the proportional share is text_length * T.
UnflooredDuration(text_length, L, T) ==
    LET proportional_duration == text_length * T
    IN  IF proportional_duration <= MaxDurationMs * L
        THEN proportional_duration ELSE MaxDurationMs * L

UnclampedDuration(text_length, L, T) ==
    LET min_duration == MinDurationMs * L
        proportional_duration == text_length * T
    IN  IF min_duration >= proportional_duration
        THEN min_duration ELSE proportional_duration

Duration(text_length, L, T) ==
    LET min_duration == MinDurationMs * L
        proportional_duration == text_length * T
        duration == IF min_duration >= proportional_duration
                    THEN min_duration ELSE proportional_duration
    IN  IF duration <= MaxDurationMs * L THEN duration ELSE MaxDurationMs * L

\* end_time = start_time + duration, the last cue's forced to total_duration.
UnforcedEndTime(i, n, start_time, duration, L, T) == start_time + duration

EndTime(i, n, start_time, duration, L, T) ==
    IF i = n THEN T * L ELSE start_time + duration

\* current_time = end_time
StaleCurrentTime(start_time, end_time) == start_time

NextCurrentTime(start_time, end_time) == end_time

\* round(x, 2) of a time x = s / L ms: the nearest centisecond. An exact
\* half goes to the even centisecond, as round() does on a half the float
\* represents exactly; on other decimal halves the float's representation
\* error decides, and the audio lengths above produce none.
Round2(s, L) ==
    LET unit == 10 * L
        q == s \div unit
        r == s % unit
    IN  IF 2 * r < unit THEN q
        ELSE IF 2 * r > unit THEN q + 1
        ELSE IF q % 2 = 0 THEN q ELSE q + 1

Init2 ==
    /\ s2_pc = "loop"
    /\ s2_subtitles \in SeqsUpTo(TextLengths, MaxCues)
    /\ s2_total_duration \in AudioLengthsMs
    /\ s2_result = <<>>
    /\ s2_current_time = 0

Idle2 ==
    /\ s2_pc = "idle"
    /\ s2_subtitles = <<>>
    /\ s2_total_duration = 0
    /\ s2_result = <<>>
    /\ s2_current_time = 0

\* One iteration of the for loop of find_subtitle_times.
AllocateCue ==
    /\ s2_pc = "loop"
    /\ Len(s2_result) < Len(s2_subtitles)
    /\ LET i == Len(s2_result) + 1
           n == Len(s2_subtitles)
           L == total_text_length
           T == s2_total_duration
           duration == Duration(s2_subtitles[i], L, T)
           start_time == s2_current_time
           end_time == EndTime(i, n, start_time, duration, L, T)
       IN  /\ s2_result' = Append(s2_result,
                  [index |-> i, text |-> s2_subtitles[i],
                   start |-> Round2(start_time, L),
                   end |-> Round2(end_time, L),
                   confidence |-> "estimated"])
           /\ s2_current_time' = NextCurrentTime(start_time, end_time)
    /\ UNCHANGED <<s2_pc, s2_subtitles, s2_total_duration>>

\* The loop is exhausted: return result.
ReturnTimes ==
    /\ s2_pc = "loop"
    /\ Len(s2_result) = Len(s2_subtitles)
    /\ s2_pc' = "done"
    /\ UNCHANGED <<s2_subtitles, s2_total_duration, s2_result, s2_current_time>>

\* ------------------------------------------------------- step 2: claims

Done2 == s2_pc = "done"

\* C7: every cue output by find_subtitle_times has start < end, the final
\* cue, whose end is forced to total_duration, included.
C7_StartBeforeEnd ==
    \A k \in 1..Len(s2_result) : s2_result[k].start < s2_result[k].end

\* C8: the cues output by find_subtitle_times are sorted and contiguous:
\* the first cue starts at 0, every cue ends where the next one starts,
\* start is non-decreasing and no later cue starts before an earlier
\* cue's end.
C8_SortedContiguous ==
    /\ Len(s2_result) > 0 => s2_result[1].start = 0
    /\ \A k \in 1..(Len(s2_result) - 1) :
          /\ s2_result[k].end = s2_result[k + 1].start
          /\ s2_result[k].start <= s2_result[k + 1].start
    /\ \A j, k \in 1..Len(s2_result) :
          j < k => s2_result[j].end <= s2_result[k].start

\* C8 witness: a finished run of three cues, the clamp having acted.
C8_Witness ==
    /\ Done2
    /\ Len(s2_result) = 3
    /\ s2_result[2].end - s2_result[2].start = 50

\* C9 as stated: the final cue's end equals total_duration exactly.
C9_FinalEndExact ==
    (Done2 /\ Len(s2_result) > 0) =>
        10 * Last(s2_result).end = s2_total_duration

\* C9 as amended: the final cue's end is total_duration rounded to two
\* decimals (the centisecond nearest to it), whatever durations the clamp
\* gave the earlier cues.
C9_FinalEndRounded ==
    (Done2 /\ Len(s2_result) > 0) =>
        Abs(10 * Last(s2_result).end - s2_total_duration) <= 5

\* C9 witness: a finished run whose audio length is no whole centisecond
\* and whose earlier cues were clamped.
C9_Witness ==
    /\ Done2
    /\ Len(s2_result) >= 2
    /\ s2_total_duration % 10 # 0
    /\ s2_result[1].end = 500

C10_Example ==
    /\ Done2
    /\ s2_subtitles = <<10, 30>>
    /\ s2_total_duration = 100000

\* C10 as stated: audio of 100.0 s and two cues of 10 and 30 characters
\* give the cues [0.0, 2.5] and [2.5, 100.0].
C10_ExampleAsStated ==
    C10_Example =>
        /\ s2_result[1].start = 0 /\ s2_result[1].end = 250
        /\ s2_result[2].start = 250 /\ s2_result[2].end = 10000

\* C10 as amended: audio of 100.0 s and two cues of 10 and 30 characters
\* give the cues [0.0, 5.0] and [5.0, 100.0] (both proportional shares,
\* 25 s and 75 s, are clamped to 5.0 s).
C10_ExampleAmended ==
    C10_Example =>
        /\ Len(s2_result) = 2
        /\ s2_result[1].start = 0 /\ s2_result[1].end = 500
        /\ s2_result[2].start = 500 /\ s2_result[2].end = 10000

\* C10 witness: the example's run has finished.
C10_Witness == C10_Example /\ Len(s2_result) = 2

Max(a, b) == IF a >= b THEN a ELSE b

\* max(0.5, min(proportional, 5.0)) of the cue of text_length characters,
\* in units of 1/L ms.
ClampedShare(text_length, L, T) ==
    Max(MinDurationMs * L, Min(text_length * T, MaxDurationMs * L))

TicksPerMs == 3
\* end = start + 0.5, in ms
MinCueMs == 500
HalfSecond == MinCueMs * TicksPerMs

\* round(x, 3): the nearest whole millisecond.
Round3(x) == ((2 * x + TicksPerMs) \div (2 * TicksPerMs)) * TicksPerMs

NeverStartsBeforePrevious(i, start, validated) == FALSE

AlwaysStartsBeforePrevious(i, start, validated) == i > 0

\* i > 0 and start < validated[-1]["end"]
StartsBeforePrevious(i, start, validated) ==
    i > 0 /\ start < Last(validated).end

ForcedEndLate(start) == start + 2 * HalfSecond

\* end = start + 0.5
ForcedEnd(start) == start + HalfSecond

\* The body of the for loop of validate_subtitle_timing: the cue appended
\* for subtitles[i] (i from 0), validated holding the cues before it.
RepairedCue(subtitle, i, validated) ==
    LET start == subtitle.start
        end == IF subtitle.start >= subtitle.end
               THEN ForcedEnd(subtitle.start) ELSE subtitle.end
        pulled == StartsBeforePrevious(i, start, validated)
        start2 == IF pulled THEN Last(validated).end ELSE start
        end2 == IF pulled /\ start2 >= end THEN ForcedEnd(start2) ELSE end
    IN  [subtitle EXCEPT !.start = Round3(start2), !.end = Round3(end2)]

RECURSIVE RepairFrom(_, _, _)
RepairFrom(subtitles, i, validated) ==
    IF i >= Len(subtitles) THEN validated
    ELSE RepairFrom(subtitles, i + 1,
             Append(validated, RepairedCue(subtitles[i + 1], i, validated)))

\* validate_subtitle_timing
validate_subtitle_timing(subtitles) == RepairFrom(subtitles, 0, <<>>)

\* A text of several lines is the sequence of its lines (its split on
\* "\n"), each line a sequence of characters: "\n".join(parts) is then the
\* concatenation of the parts' lines.
DigitChars == <<"0", "1", "2", "3", "4", "5", "6", "7", "8", "9">>

\* str(n) of a natural number
RECURSIVE Str(_)
Str(n) ==
    IF n < 10 THEN <<DigitChars[n + 1]>>
    ELSE Str(n \div 10) \o <<DigitChars[(n % 10) + 1]>>

\* the zero padding of {:02d} and {:06.3f}
ZeroPad(s, width) ==
    IF Len(s) >= width THEN s ELSE [k \in 1..(width - Len(s)) |-> "0"] \o s

\* format_time: hours and minutes are floored, the seconds within the
\* minute are rounded to three decimals by the format.
format_time(seconds) ==
    LET hours == seconds \div (3600000 * TicksPerMs)
        minutes == (seconds % (3600000 * TicksPerMs)) \div (60000 * TicksPerMs)
        sec == seconds % (60000 * TicksPerMs)
        sec_ms == Round3(sec) \div TicksPerMs
    IN  ZeroPad(Str(hours), 2) \o <<":">> \o ZeroPad(Str(minutes), 2) \o <<":">>
        \o ZeroPad(Str(sec_ms \div 1000) \o <<".">>
                   \o ZeroPad(Str(sec_ms % 1000), 3), 6)

Header == <<"W", "E", "B", "V", "T", "T">>
Arrow == <<" ", "-", "-", ">", " ">>

\* The four entries generate_webvtt appends for one cue.
CueBlock(subtitle) ==
    <<Str(subtitle.index),
      format_time(subtitle.start) \o Arrow \o format_time(subtitle.end)>>
    \o subtitle.text \o << <<>> >>

RECURSIVE CueBlocks(_)
CueBlocks(subtitles) ==
    IF subtitles = <<>> THEN <<>>
    ELSE CueBlock(Head(subtitles)) \o CueBlocks(Tail(subtitles))

\* generate_webvtt: the lines of the text returned.
generate_webvtt(subtitles) == <<Header, <<>> >> \o CueBlocks(subtitles)

\* content.strip().split('\n'): the leading and trailing lines of
\* whitespace go with their line breaks, the first and last lines left are
\* stripped on their outer side.
RECURSIVE StripLeading(_)
StripLeading(lines) ==
    IF Len(lines) > 1 /\ Strip(Head(lines)) = <<>> THEN StripLeading(Tail(lines))
    ELSE <<LStrip(Head(lines))>> \o Tail(lines)

RECURSIVE StripTrailing(_)
StripTrailing(lines) ==
    IF Len(lines) > 1 /\ Strip(Last(lines)) = <<>>
    THEN StripTrailing(SubSeq(lines, 1, Len(lines) - 1))
    ELSE SubSeq(lines, 1, Len(lines) - 1) \o <<RStrip(Last(lines))>>

StrippedLines(content) == StripTrailing(StripLeading(content))

\* line.strip().isdigit()
IsDigitLine(line) ==
    LET s == Strip(line)
    IN  s # <<>> /\ \A k \in 1..Len(s) : \E d \in 1..10 : s[k] = DigitChars[d]

\* sub in line
Contains(line, sub) ==
    \E k \in 1..(Len(line) - Len(sub) + 1) :
        SubSeq(line, k, k + Len(sub) - 1) = sub

\* The while loop of validate_webvtt_file from lines[i] (i from 0).
RECURSIVE ScanFrom(_, _, _, _)
ScanFrom(lines, i, subtitle_count, issues) ==
    IF i >= Len(lines)
    THEN [subtitle_count |-> subtitle_count, issues |-> issues]
    ELSE IF IsDigitLine(lines[i + 1])
    THEN LET count == subtitle_count + 1
             issues1 == IF i + 1 < Len(lines) /\ ~Contains(lines[i + 2], Arrow)
                        THEN Append(issues, [subtitle |-> count,
                                             issue |-> "time_format"])
                        ELSE issues
             issues2 == IF i + 2 < Len(lines) /\ Strip(lines[i + 3]) = <<>>
                        THEN Append(issues1, [subtitle |-> count,
                                              issue |-> "empty_text"])
                        ELSE issues1
         IN  ScanFrom(lines, i + 4, count, issues2)
    ELSE ScanFrom(lines, i + 1, subtitle_count, issues)

\* validate_webvtt_file: stats
validate_webvtt_file(content) ==
    LET lines == StrippedLines(content)
        issues0 == IF Strip(lines[1]) # Header
                   THEN <<[subtitle |-> 0, issue |-> "no_header"]>> ELSE <<>>
        scan == ScanFrom(lines, 2, 0, issues0)
    IN  [total_subtitles |-> scan.subtitle_count,
         issues |-> scan.issues,
         is_valid |-> scan.issues = <<>>]

NoStats == [total_subtitles |-> 0, issues |-> <<>>, is_valid |-> FALSE]

\* The times (ticks) of the cue lists given to the repair: 0, a third of a
\* millisecond, 0.2 s, 0.5 s, 1 s, 9 s and 10 s.
RepairTimes == {0, 1, 600, 1500, 3000, 27000, 30000}

PlainText == << <<"a">> >>

\* The cue lists of at most max cues given to the repair: any start and end.
RepairInputs(max) ==
    UNION {[1..n -> [index : {0}, text : {PlainText},
                     start : RepairTimes, end : RepairTimes]]
           : n \in 0..max}

\* The lines of a cue text, and the texts of 1 to 3 lines.
CueLines == {<<"a">>, <<"7">>}
CueTexts == UNION {[1..n -> CueLines] : n \in 1..MaxPieceLines}

\* The durations (ms) of the cues of a well-formed track.
VttDurationsMs == {500, 61000}

\* The cues of texts texts and durations ms, one after the other from 0.
RECURSIVE TrackFrom(_, _, _, _)
TrackFrom(texts, ms, k, at) ==
    IF k > Len(texts) THEN <<>>
    ELSE <<[index |-> 0, text |-> texts[k], start |-> at,
            end |-> at + ms[k] * TicksPerMs]>>
         \o TrackFrom(texts, ms, k + 1, at + ms[k] * TicksPerMs)

\* The well-formed tracks of at most max cues: 1 to 3 non-empty lines,
\* start < end, contiguous.
VttInputs(max) ==
    UNION {{TrackFrom(texts, ms, 1, 0) :
               texts \in [1..n -> CueTexts], ms \in [1..n -> VttDurationsMs]}
           : n \in 0..max}

\* "index": i + 1, as step 2 writes it.
Indexed(subtitles) ==
    [k \in 1..Len(subtitles) |-> [subtitles[k] EXCEPT !.index = k]]

Init3 ==
    /\ s3_pc = "start"
    /\ s3_input \in {Indexed(cues) : cues \in RepairInputs(MaxRepairCues)}
    /\ s3_validate \in BOOLEAN
    /\ s3_subtitles = <<>>
    /\ s3_content = <<>>
    /\ s3_stats = NoStats

Init3Vtt ==
    /\ s3_pc = "start"
    /\ s3_input \in {Indexed(cues) : cues \in VttInputs(MaxVttCues)}
    /\ s3_validate \in BOOLEAN
    /\ s3_subtitles = <<>>
    /\ s3_content = <<>>
    /\ s3_stats = NoStats

\* The lines a file on disk may hold after "WEBVTT" and the blank line: a
\* cue number, a time line, a text line, an empty line.
FileLines ==
    {<<"1">>,
     format_time(0) \o Arrow \o format_time(500 * TicksPerMs),
     <<"a">>,
     <<>>}

\* The files of at most max lines after the header.
VttFiles(max) ==
    {<<Header, <<>> >> \o body : body \in SeqsUpTo(FileLines, max)}

\* validate_webvtt_file is given the path of a file that exists.
Init3Check ==
    /\ s3_pc = "written"
    /\ s3_input = <<>>
    /\ s3_validate = FALSE
    /\ s3_subtitles = <<>>
    /\ s3_content \in VttFiles(MaxBodyLines)
    /\ s3_stats = NoStats

Idle3 ==
    /\ s3_pc = "idle"
    /\ s3_input = <<>>
    /\ s3_validate = FALSE
    /\ s3_subtitles = <<>>
    /\ s3_content = <<>>
    /\ s3_stats = NoStats

\* process_timed_subtitles: the cues are repaired when --validate is given,
\* serialized, and the text is written to the output file.
ProcessTimedSubtitles ==
    /\ s3_pc = "start"
    /\ LET subtitles == IF s3_validate THEN validate_subtitle_timing(s3_input)
                        ELSE s3_input
       IN  /\ s3_subtitles' = subtitles
           /\ s3_content' = generate_webvtt(subtitles)
    /\ s3_pc' = "written"
    /\ UNCHANGED <<s3_input, s3_validate, s3_stats>>

\* main with --check-vtt: validate_webvtt_file on the file written.
ValidateWebvttFile ==
    /\ s3_pc = "written"
    /\ s3_stats' = validate_webvtt_file(s3_content)
    /\ s3_pc' = "checked"
    /\ UNCHANGED <<s3_input, s3_validate, s3_subtitles, s3_content>>

\* ------------------------------------------------------- step 3: claims

\* validate_subtitle_timing has returned: s3_subtitles is the repaired list.
Repaired == s3_validate /\ s3_pc # "start" /\ s3_pc # "idle"

\* The cue s3_input[k] does not start before the repaired end of the cue
\* before it.
StartsClear(k) == k = 1 \/ s3_input[k].start >= s3_subtitles[k - 1].end

\* C11: in the list validate_subtitle_timing returns no cue starts before
\* the end of the cue before it, whatever timings the input list had.
C11_NoOverlap ==
    Repaired =>
        \A k \in 2..Len(s3_subtitles) :
            s3_subtitles[k].start >= s3_subtitles[k - 1].end

\* C11 witness: the second cue of the input started before the first
\* one's end and was pulled forward to it.
C11_Witness ==
    /\ Repaired
    /\ Len(s3_input) = 2
    /\ s3_input[1].start < s3_input[1].end
    /\ s3_input[2].start < s3_input[1].end
    /\ s3_subtitles[2].start = s3_subtitles[1].end

\* C12: every cue of the list validate_subtitle_timing returns lasts at
\* least 0.5 s, a cue that came in with start < end and shorter than 0.5 s
\* and a cue whose start was pulled forward included.
C12_MinimumDuration ==
    Repaired =>
        \A k \in 1..Len(s3_subtitles) :
            s3_subtitles[k].end - s3_subtitles[k].start >= HalfSecond

\* C13: validate_subtitle_timing is idempotent: repairing the repaired
\* list again changes no cue.
C13_Idempotent ==
    Repaired => validate_subtitle_timing(s3_subtitles) = s3_subtitles

\* C14 as stated: in the repaired list every cue starts exactly where the
\* cue before it ends, also when the input had a gap.
C14_GapFree ==
    Repaired =>
        \A k \in 2..Len(s3_subtitles) :
            s3_subtitles[k].start = s3_subtitles[k - 1].end

\* C14 as amended: the repaired list is overlap-free and keeps its gaps: a
\* cue that came in starting before the previous repaired end starts at
\* that end, any other cue keeps its own start, rounded to the millisecond.
C14_GapsKept ==
    Repaired =>
        \A k \in 2..Len(s3_subtitles) :
            /\ s3_subtitles[k].start >= s3_subtitles[k - 1].end
            /\ ~StartsClear(k) => s3_subtitles[k].start = s3_subtitles[k - 1].end
            /\ StartsClear(k) => s3_subtitles[k].start = Round3(s3_input[k].start)

\* C14 witness: a gap of the input is still there after the repair.
C14_Witness ==
    /\ Repaired
    /\ Len(s3_subtitles) = 2
    /\ s3_input[2].start > s3_input[1].end
    /\ s3_subtitles[2].start > s3_subtitles[1].end

\* A cue that comes in with start >= end and does not start before the
\* previous repaired end.
Inverted(k) == s3_input[k].start >= s3_input[k].end /\ StartsClear(k)

C15_RoundTripValid ==
    s3_pc = "checked" => (s3_stats.is_valid /\ s3_stats.issues = <<>>)

\* The positions (from 1) of the cue numbers of the file: the lines of
\* digits after the header.
NumberedBlocks == {p \in 3..Len(s3_content) : IsDigitLine(s3_content[p])}

\* The block numbered at line p has no line with the separator after its
\* number, or no non-empty text line after that.
Defective(p) ==
    \/ p + 1 > Len(s3_content)
    \/ ~Contains(s3_content[p + 1], Arrow)
    \/ p + 2 > Len(s3_content)
    \/ Strip(s3_content[p + 2]) = <<>>

\* The number of the block at line p, counting the blocks from 1.
BlockNumber(p) == Cardinality({q \in NumberedBlocks : q <= p})

\* C23: validate_webvtt_file counts every numbered block of the file and,
\* for every block without a time line or without a non-empty text line,
\* records an issue of that block and sets is_valid to false, the last
\* block of the file and a block after a defective block included.
C23_EveryDefectReported ==
    s3_pc = "checked" =>
        /\ s3_stats.total_subtitles = Cardinality(NumberedBlocks)
        /\ \A p \in NumberedBlocks :
              Defective(p) =>
                  /\ ~s3_stats.is_valid
                  /\ \E k \in 1..Len(s3_stats.issues) :
                        s3_stats.issues[k].subtitle = BlockNumber(p)

\* ============================================================== step 4
\* SubtitleGrouper: parse_grouping_result, validate_groups, process_subtitles
\* Cue times are centiseconds, as step 2 wrote them. A cue is known by its
\* 0-based position in data["subtitles"]; a group's "subtitles" lists the
\* positions of its cues, and its combined_text (the join of their texts)
\* is not kept.

\* group["duration"] < 3.0
MinGroupDurationCs == 300

\* "topic": "추가 내용", the label of a synthesized group.
ExtraTopic == "extra"
\* parts[1].strip(), the label the oracle gave.
OracleTopic == "oracle"

\* The durations (cs) of the cues a run is started with.
CueDurations == {100, 200}

RECURSIVE CuesFrom(_, _, _)
CuesFrom(durs, k, t) ==
    IF k > Len(durs) THEN <<>>
    ELSE <<[index |-> k, start |-> t, end |-> t + durs[k]]>>
         \o CuesFrom(durs, k + 1, t + durs[k])

CueLists == {CuesFrom(d, 1, 0) : d \in SeqsUpTo(CueDurations, MaxGroupCues)}

\* The lines the oracle may answer for a list of n cues:
\*   range    "그룹k: a-b | topic" (of the reversed ranges, b = a - 1 only)
\*   single   "그룹k: a | topic"
\*   nomatch  a line without '그룹', ':' or '|'
\*   badnum   a line of the shape whose numbers int() rejects
OracleLines(n) ==
    {[kind |-> "range", a |-> ab[1], b |-> ab[2]] :
        ab \in {x \in (0..(n + 1)) \X (0..(n + 1)) : x[2] + 1 >= x[1]}}
    \cup {[kind |-> "single", a |-> a, b |-> a] : a \in 0..(n + 1)}
    \cup {[kind |-> "nomatch", a |-> 0, b |-> 0],
          [kind |-> "badnum", a |-> 0, b |-> 0]}

\* What model.generate_content / response.text gives: lines, or an exception.
NoResponse == [raised |-> FALSE, lines |-> <<>>]

OracleResponses(n) ==
    {[raised |-> FALSE, lines |-> ls] : ls \in SeqsUpTo(OracleLines(n), MaxLines)}
    \cup {[raised |-> TRUE, lines |-> <<>>]}

\* list(range(lo, hi))
Range(lo, hi) == [k \in 1..(IF hi > lo THEN hi - lo ELSE 0) |-> lo + k - 1]

SeqToSet(s) == {s[k] : k \in 1..Len(s)}

\* subtitle_indices of a line: range(start_idx - 1, end_idx), or [n - 1].
LineIndices(line) ==
    IF line.kind = "range" THEN Range(line.a - 1, line.b)
    ELSE <<line.a - 1>>

\* The cue at 0-based position idx.
CueAt(subtitles, idx) == subtitles[idx + 1]

\* group_subtitles: the indices with 0 <= idx < len(subtitles).
InRange(indices, subtitles) ==
    SelectSeq(indices, LAMBDA idx : 0 <= idx /\ idx < Len(subtitles))

\* "subtitle_indices": subtitle_indices (the list as parsed, unfiltered).
StoredIndices(indices, subtitles) == indices

MakeGroup(id, members, indices, topic, subtitles) ==
    [group_id |-> id,
     start_time |-> CueAt(subtitles, Head(members)).start,
     end_time |-> CueAt(subtitles, Last(members)).end,
     duration |-> CueAt(subtitles, Last(members)).end
                  - CueAt(subtitles, Head(members)).start,
     subtitle_count |-> Len(members),
     subtitles |-> members,
     topic |-> topic,
     subtitle_indices |-> indices]

\* A scan that ends at the first line it cannot parse.
RECURSIVE ParseUntilMalformed(_, _, _, _)
ParseUntilMalformed(lines, k, groups, subtitles) ==
    IF k > Len(lines) THEN groups
    ELSE LET line == lines[k]
         IN  IF line.kind \in {"nomatch", "badnum"} THEN groups
             ELSE LET subtitle_indices == LineIndices(line)
                      group_subtitles == InRange(subtitle_indices, subtitles)
                  IN  IF group_subtitles = <<>>
                      THEN ParseUntilMalformed(lines, k + 1, groups, subtitles)
                      ELSE ParseUntilMalformed(lines, k + 1,
                               Append(groups,
                                   MakeGroup(Len(groups) + 1, group_subtitles,
                                       StoredIndices(subtitle_indices, subtitles),
                                       OracleTopic, subtitles)),
                               subtitles)

\* parse_grouping_result, the lines from position k on, groups so far given.
RECURSIVE ParseFrom(_, _, _, _)
ParseFrom(lines, k, groups, subtitles) ==
    IF k > Len(lines) THEN groups
    ELSE LET line == lines[k]
         IN  IF line.kind \in {"nomatch", "badnum"}
             THEN ParseFrom(lines, k + 1, groups, subtitles)
             ELSE LET subtitle_indices == LineIndices(line)
                      group_subtitles == InRange(subtitle_indices, subtitles)
                  IN  IF group_subtitles = <<>>
                      THEN ParseFrom(lines, k + 1, groups, subtitles)
                      ELSE ParseFrom(lines, k + 1,
                               Append(groups,
                                   MakeGroup(Len(groups) + 1, group_subtitles,
                                       StoredIndices(subtitle_indices, subtitles),
                                       OracleTopic, subtitles)),
                               subtitles)

parse_grouping_result(analysis_result, subtitles) ==
    ParseFrom(analysis_result, 1, <<>>, subtitles)

\* analyze_and_group_subtitles: the parsed groups, [] on any exception.
analyze_and_group_subtitles(response, subtitles) ==
    IF response.raised THEN <<>>
    ELSE parse_grouping_result(response.lines, subtitles)

\* group_indices & covered_indices
NeverOverlaps(group_indices, covered_indices) == FALSE

Overlaps(group_indices, covered_indices) ==
    group_indices \cap covered_indices # {}

\* group["duration"] < 3.0
TooShort(group) == group.duration < MinGroupDurationCs

\* The first loop of validate_groups: <<validated_groups, covered_indices>>.
RECURSIVE AcceptFrom(_, _, _, _)
AcceptFrom(groups, k, validated_groups, covered_indices) ==
    IF k > Len(groups) THEN <<validated_groups, covered_indices>>
    ELSE LET group == groups[k]
             group_indices == SeqToSet(group.subtitle_indices)
         IN  IF Overlaps(group_indices, covered_indices)
             THEN AcceptFrom(groups, k + 1, validated_groups, covered_indices)
             ELSE IF TooShort(group)
             THEN AcceptFrom(groups, k + 1, validated_groups, covered_indices)
             ELSE AcceptFrom(groups, k + 1, Append(validated_groups, group),
                             covered_indices \cup group_indices)

\* sorted(s) of a set of integers.
RECURSIVE SortedSeq(_)
SortedSeq(S) ==
    IF S = {} THEN <<>>
    ELSE LET m == CHOOSE x \in S : \A y \in S : x <= y
         IN  <<m>> \o SortedSeq(S \ {m})

NothingMissing(subtitles, covered_indices) == {}

\* all_indices - covered_indices
MissingIndices(subtitles, covered_indices) ==
    (0..(Len(subtitles) - 1)) \ covered_indices

\* One extra group holding every missing index, whatever the gaps.
FillOneGroup(missing_sorted, i, current_group_indices, validated_groups, subtitles) ==
    IF missing_sorted = <<>> THEN validated_groups
    ELSE Append(validated_groups,
             MakeGroup(Len(validated_groups) + 1, missing_sorted, missing_sorted,
                       ExtraTopic, subtitles))

\* The second loop of validate_groups: one extra group per run of
\* consecutive missing indices.
RECURSIVE FillFrom(_, _, _, _, _)
FillFrom(missing_sorted, i, current_group_indices, validated_groups, subtitles) ==
    IF i > Len(missing_sorted) THEN validated_groups
    ELSE LET idx == missing_sorted[i]
             current == Append(current_group_indices, idx)
         IN  IF i = Len(missing_sorted) \/ missing_sorted[i + 1] # idx + 1
             THEN FillFrom(missing_sorted, i + 1, <<>>,
                      Append(validated_groups,
                          MakeGroup(Len(validated_groups) + 1, current, current,
                                    ExtraTopic, subtitles)),
                      subtitles)
             ELSE FillFrom(missing_sorted, i + 1, current, validated_groups,
                           subtitles)

\* list.sort(key=start_time): a stable insertion of g into a sorted list.
RECURSIVE InsertByStart(_, _)
InsertByStart(sorted, g) ==
    IF sorted = <<>> THEN <<g>>
    ELSE IF Last(sorted).start_time <= g.start_time THEN Append(sorted, g)
    ELSE Append(InsertByStart(SubSeq(sorted, 1, Len(sorted) - 1), g),
                Last(sorted))

RECURSIVE SortByStart(_)
SortByStart(gs) ==
    IF gs = <<>> THEN <<>>
    ELSE InsertByStart(SortByStart(SubSeq(gs, 1, Len(gs) - 1)), Last(gs))

KeepIds(gs) == gs

\* group["group_id"] = i + 1
Renumber(gs) == [k \in 1..Len(gs) |-> [gs[k] EXCEPT !.group_id = k]]

validate_groups(groups, subtitles) ==
    IF groups = <<>> THEN <<>>
    ELSE LET accepted == AcceptFrom(groups, 1, <<>>, {})
             missing_indices == MissingIndices(subtitles, accepted[2])
             filled == FillFrom(SortedSeq(missing_indices), 1, <<>>,
                                accepted[1], subtitles)
         IN  Renumber(SortByStart(filled))

\* The lists of four cues.
FourCueLists == {CuesFrom(d, 1, 0) : d \in [1..4 -> CueDurations]}

Init4Four ==
    /\ s4_pc = "start"
    /\ s4_subtitles \in CueLists \cup FourCueLists
    /\ s4_response = NoResponse
    /\ s4_groups = <<>>
    /\ s4_validated = <<>>

Init4 ==
    /\ s4_pc = "start"
    /\ s4_subtitles \in CueLists
    /\ s4_response = NoResponse
    /\ s4_groups = <<>>
    /\ s4_validated = <<>>

\* process_subtitles, up to the return of analyze_and_group_subtitles: the
\* oracle is asked once and its answer parsed.
AnalyzeAndGroup ==
    /\ s4_pc = "start"
    /\ \E response \in OracleResponses(Len(s4_subtitles)) :
          /\ s4_response' = response
          /\ s4_groups' = analyze_and_group_subtitles(response, s4_subtitles)
    /\ s4_pc' = "analyzed"
    /\ UNCHANGED <<s4_subtitles, s4_validated>>

\* process_subtitles: "if not groups: return" (nothing is written).
GroupingFailed ==
    /\ s4_pc = "analyzed"
    /\ s4_groups = <<>>
    /\ s4_pc' = "failed"
    /\ UNCHANGED <<s4_subtitles, s4_response, s4_groups, s4_validated>>

\* process_subtitles: validate_groups, then the output file is written.
ValidateAndSave ==
    /\ s4_pc = "analyzed"
    /\ s4_groups # <<>>
    /\ s4_validated' = validate_groups(s4_groups, s4_subtitles)
    /\ s4_pc' = "done"
    /\ UNCHANGED <<s4_subtitles, s4_response, s4_groups>>

\* The exit status of step 4 once process_subtitles has returned: main
\* returns whatever process_subtitles returned, None ("failed") included.
ExitStatus4(pc) == CASE pc = "failed" -> 0 [] pc = "done" -> 0

\* pipeline.py, run_step: subprocess.run(check=True) raises
\* CalledProcessError on a non-zero exit status and run_step returns False;
\* otherwise it prints that the step is completed and returns True.
run_step(returncode) == returncode = 0

\* ------------------------------------------------------- step 4: claims

Done4 == s4_pc = "done"

IndexSet(group) == SeqToSet(group.subtitle_indices)

CoveredBy(gs) == UNION {IndexSet(gs[k]) : k \in 1..Len(gs)}

\* C1: after validate_groups the union of the returned groups'
\* subtitle_indices is exactly {0, ..., N-1}, N the number of cues.
C1_ExactCover ==
    Done4 => CoveredBy(s4_validated) = 0..(Len(s4_subtitles) - 1)

\* C2: in the output of validate_groups no cue index belongs to two
\* different groups (accepted and synthesized groups together).
C2_PairwiseDisjoint ==
    \A j, k \in 1..Len(s4_validated) :
        j # k => IndexSet(s4_validated[j]) \cap IndexSet(s4_validated[k]) = {}

\* C2 witness: the oracle proposed two groups that share an index, the
\* first long enough to be accepted, and the output holds an accepted and
\* a synthesized group.
C2_Witness ==
    /\ Done4
    /\ Len(s4_groups) = 2
    /\ IndexSet(s4_groups[1]) \cap IndexSet(s4_groups[2]) # {}
    /\ ~TooShort(s4_groups[1])
    /\ \E k \in 1..Len(s4_validated) : s4_validated[k].topic = OracleTopic
    /\ \E k \in 1..Len(s4_validated) : s4_validated[k].topic = ExtraTopic

\* The proposal s4_groups[k] is accepted: it is long enough and shares no
\* index with an accepted proposal before it.
RECURSIVE Kept(_)
Kept(k) ==
    /\ ~TooShort(s4_groups[k])
    /\ \A j \in 1..(k - 1) :
          Kept(j) => IndexSet(s4_groups[j]) \cap IndexSet(s4_groups[k]) = {}

KeptProposals == {k \in 1..Len(s4_groups) : Kept(k)}

OutputWithTopic(topic) ==
    {m \in 1..Len(s4_validated) : s4_validated[m].topic = topic}

\* The oracle proposed 1-3 and 2-4 for four cues.
C16_Example ==
    /\ Len(s4_subtitles) = 4
    /\ s4_response.lines = <<[kind |-> "range", a |-> 1, b |-> 3],
                             [kind |-> "range", a |-> 2, b |-> 4]>>

\* C16: validate_groups takes the proposals in the oracle's order and
\* drops, whole, every proposal that shares an index with an accepted
\* proposal before it: the oracle's groups of the output are exactly the
\* accepted proposals, and every cue of a dropped proposal that no accepted
\* proposal holds is in a synthesized group. For the proposals 1-3 and 2-4
\* the output is the group of cues 1 to 3 and a synthesized group of cue 4
\* alone.
C16_OverlapDroppedAndFilled ==
    Done4 =>
        /\ \A k \in KeptProposals : \E m \in OutputWithTopic(OracleTopic) :
              s4_validated[m].subtitle_indices = s4_groups[k].subtitle_indices
        /\ \A m \in OutputWithTopic(OracleTopic) : \E k \in KeptProposals :
              s4_validated[m].subtitle_indices = s4_groups[k].subtitle_indices
        /\ Cardinality(OutputWithTopic(OracleTopic)) = Cardinality(KeptProposals)
        /\ \A k \in (1..Len(s4_groups)) \ KeptProposals :
              \A idx \in IndexSet(s4_groups[k]) \cap (0..(Len(s4_subtitles) - 1)) :
                  (\A j \in KeptProposals : idx \notin IndexSet(s4_groups[j]))
                  => \E m \in OutputWithTopic(ExtraTopic) :
                         idx \in IndexSet(s4_validated[m])
        /\ C16_Example =>
              /\ Len(s4_validated) = 2
              /\ s4_validated[1].topic = OracleTopic
              /\ s4_validated[1].subtitle_indices = <<0, 1, 2>>
              /\ s4_validated[2].topic = ExtraTopic
              /\ s4_validated[2].subtitle_indices = <<3>>

\* C16 witness: the example has been reconciled, the second proposal
\* parsed and dropped.
C16_Witness ==
    /\ Done4
    /\ C16_Example
    /\ Len(s4_groups) = 2
    /\ KeptProposals = {1}

\* C17: when the grouping oracle raises, or returns nothing usable, step 4
\* ends as a failure: the pipeline's run_step does not see it as completed.
C17_OracleFailureEscalated ==
    (s4_pc \in {"failed", "done"} /\ (s4_response.raised \/ s4_groups = <<>>))
        => ~run_step(ExitStatus4(s4_pc))

\* C20: the groups validate_groups returns are in non-decreasing order of
\* start_time and their group_id values are 1, 2, ..., n in that order.
C20_SortedDenseIds ==
    Done4 =>
        /\ \A k \in 1..Len(s4_validated) : s4_validated[k].group_id = k
        /\ \A k \in 1..(Len(s4_validated) - 1) :
              s4_validated[k].start_time <= s4_validated[k + 1].start_time

\* C20 witness: a synthesized group, appended after the oracle's group
\* with the id 2, comes first in the output with the id 1.
C20_Witness ==
    /\ Done4
    /\ Len(s4_validated) = 3
    /\ s4_validated[1].topic = ExtraTopic
    /\ s4_validated[2].topic = OracleTopic
    /\ s4_validated[3].topic = ExtraTopic

\* The cue indices that no accepted proposal claims.
Unclaimed ==
    LET claimed == UNION {IndexSet(s4_groups[k]) : k \in KeptProposals}
    IN  (0..(Len(s4_subtitles) - 1)) \ claimed

\* The maximal runs <<lo, hi>> of consecutive indices of the set U.
MaximalRuns(U) ==
    {r \in U \X U :
        /\ r[1] <= r[2]
        /\ \A idx \in r[1]..r[2] : idx \in U
        /\ (r[1] - 1) \notin U
        /\ (r[2] + 1) \notin U}

\* C21: validate_groups synthesizes exactly one filler group for each
\* maximal run of consecutive cue indices that no accepted group claims:
\* the fillers' index lists are exactly the runs, one filler per run, each
\* filler's indices are consecutive, no two fillers are adjacent in index,
\* each carries the sentinel topic, and its start_time and end_time are the
\* start of its first cue and the end of its last cue.
C21_OneFillerPerRun ==
    Done4 =>
        LET unclaimed == Unclaimed
            runs == MaximalRuns(unclaimed)
            fillers == OutputWithTopic(ExtraTopic)
        IN  /\ \A r \in runs :
                  Cardinality({m \in fillers :
                      s4_validated[m].subtitle_indices
                          = [k \in 1..(r[2] - r[1] + 1) |-> r[1] + k - 1]}) = 1
            /\ Cardinality(fillers) = Cardinality(runs)
            /\ \A m \in fillers :
                  LET g == s4_validated[m]
                      first == g.subtitle_indices[1]
                      last == g.subtitle_indices[Len(g.subtitle_indices)]
                  IN  /\ g.subtitle_indices # <<>>
                      /\ \A k \in 1..(Len(g.subtitle_indices) - 1) :
                            g.subtitle_indices[k + 1] = g.subtitle_indices[k] + 1
                      /\ g.start_time = s4_subtitles[first + 1].start
                      /\ g.end_time = s4_subtitles[last + 1].end
            /\ \A m, n \in fillers :
                  m # n => \A idx \in IndexSet(s4_validated[m]) :
                              (idx + 1) \notin IndexSet(s4_validated[n])

\* C21 witness: of four cues the oracle's accepted group holds the two in
\* the middle, and two fillers of one cue each were synthesized, the runs
\* before and after it.
C21_Witness ==
    /\ Done4
    /\ Len(s4_subtitles) = 4
    /\ KeptProposals # {}
    /\ Unclaimed = {0, 3}
    /\ Cardinality(OutputWithTopic(ExtraTopic)) = 2

\* parse_grouping_result has returned (the oracle did not raise).
Parsed == s4_pc \in {"analyzed", "failed", "done"} /\ ~s4_response.raised

\* The answer's lines of the expected pattern, "a-b" or a single number.
WellFormedLines ==
    {k \in 1..Len(s4_response.lines) :
        s4_response.lines[k].kind \in {"range", "single"}}

\* The 1-based inclusive range a-b of a well-formed line (a-a for a single
\* number), as 0-based indices.
FirstIndex(line) == line.a - 1

LastIndex(line) == (IF line.kind = "range" THEN line.b ELSE line.a) - 1

\* The well-formed lines whose range holds at least one existing cue.
YieldingLines ==
    {k \in WellFormedLines :
        \E idx \in FirstIndex(s4_response.lines[k])..LastIndex(s4_response.lines[k]) :
            0 <= idx /\ idx < Len(s4_subtitles)}

\* The parsed groups are those of the lines S, one each, in the lines' order.
GroupsOfLines(S) ==
    /\ Len(s4_groups) = Cardinality(S)
    /\ \A k \in S :
          LET line == s4_response.lines[k]
              rank == Cardinality({j \in S : j <= k})
              g == s4_groups[rank]
          IN  /\ g.group_id = rank
              /\ g.topic = OracleTopic
              /\ g.subtitle_indices =
                    [i \in 1..(LastIndex(line) - FirstIndex(line) + 1) |->
                        FirstIndex(line) + i - 1]

\* C22 as stated: a line that does not match the pattern is skipped and
\* every well-formed line before and after it yields its group, in the
\* oracle's order, the range a-b as the indices a-1 .. b-1.
C22_EveryWellFormedLineYields == Parsed => GroupsOfLines(WellFormedLines)

\* C22 amended: a line that does not match the pattern is skipped and
\* every well-formed line before and after it whose range holds at least
\* one existing cue yields its group, in the oracle's order, the range a-b
\* as the indices a-1 .. b-1; a well-formed line whose range holds no
\* existing cue yields no group.
C22_LinesWithACueYield == Parsed => GroupsOfLines(YieldingLines)

\* C22 witness: the first line of the answer was malformed, the second
\* well-formed, and the second's group was parsed.
C22_Witness ==
    /\ Parsed
    /\ Len(s4_response.lines) = 2
    /\ s4_response.lines[1].kind = "badnum"
    /\ 2 \in YieldingLines
    /\ Len(s4_groups) = 1

\* ============================================================ pipeline
\* NewPipelineManager and main of pipeline.py, the commands "all" and "from".
\* Each step is a subprocess of its own; what it does to the files under
\* base_dir and the exit status it ends with are all the runner sees.

\* self.steps.keys()
StepNumbers == 1..5

\* step["input"], as a set of files
StepInputs(step_num) ==
    CASE step_num = 1 -> {"script_clean.txt"}
      [] step_num = 2 -> {"podcast1.mp3", "out/step1_subtitles.json"}
      [] step_num = 3 -> {"out/step2_timed_subtitles.json"}
      [] step_num = 4 -> {"out/step2_timed_subtitles.json"}
      [] step_num = 5 -> {"out/step4_subtitle_groups.txt"}

\* step["output"]
StepOutput(step_num) ==
    CASE step_num = 1 -> "out/step1_subtitles.json"
      [] step_num = 2 -> "out/step2_timed_subtitles.json"
      [] step_num = 3 -> "out/podcast.vtt"
      [] step_num = 4 -> "out/step4_subtitle_groups.txt"
      [] step_num = 5 -> "out/step5_image_concepts.txt"

\* step["script"]
StepScript(step_num) ==
    CASE step_num = 1 -> "step1_gemini_text_split.py"
      [] step_num = 2 -> "step2_wav2vec2_timing.py"
      [] step_num = 3 -> "step3_generate_vtt.py"
      [] step_num = 4 -> "step4_generate_groups.py"
      [] step_num = 5 -> "step5_generate_image_concepts.py"

Scripts == {StepScript(n) : n \in StepNumbers}

DataFiles ==
    UNION {StepInputs(n) : n \in StepNumbers} \cup {StepOutput(n) : n \in StepNumbers}

\* check_step_requirements: every input file of the step exists.
check_step_requirements(step_num, files) == StepInputs(step_num) \subseteq files

\* What running a step's script may come to: it could not be started
\* (subprocess.run raised something else than CalledProcessError); it did
\* its work, wrote its output and ended with status 0; it ended on an
\* uncaught exception or sys.exit(1), for step 1 possibly after the output
\* was written; and for step 4, whose main returns normally when the
\* grouping failed, it wrote nothing and ended with the status of that
\* return.
Outcomes(step_num) ==
    {[started |-> FALSE, returncode |-> 1, wrote |-> FALSE, succeeded |-> FALSE],
     [started |-> TRUE, returncode |-> 0, wrote |-> TRUE, succeeded |-> TRUE],
     [started |-> TRUE, returncode |-> 1, wrote |-> FALSE, succeeded |-> FALSE]}
    \cup (IF step_num = 1
          THEN {[started |-> TRUE, returncode |-> 1, wrote |-> TRUE,
                 succeeded |-> FALSE]}
          ELSE {})
    \cup (IF step_num = 4
          THEN {[started |-> TRUE, returncode |-> ExitStatus4("done"),
                 wrote |-> TRUE, succeeded |-> TRUE],
                [started |-> TRUE, returncode |-> ExitStatus4("failed"),
                 wrote |-> FALSE, succeeded |-> FALSE]}
          ELSE {})

\* args.from_step
FromSteps == 0..6

\* main: the command is "all", or "from" with --from-step given; any of the
\* data files may exist from earlier runs, and at most one script is
\* missing.
InitP ==
    /\ pl_pc = "running"
    /\ \/ pl_command = "all" /\ pl_step_num = 1
       \/ pl_command = "from" /\ pl_step_num \in FromSteps
    /\ \E data \in SUBSET DataFiles :
          \E missing \in {{}} \cup {{script} : script \in Scripts} :
              pl_files = data \cup (Scripts \ missing)
    /\ pl_launched = <<>>

IdleP ==
    /\ pl_pc = "idle"
    /\ pl_command = "none"
    /\ pl_step_num = 0
    /\ pl_files = {}
    /\ pl_launched = <<>>

\* One iteration of the loop of "all" or "from": run_step(step_num) whole,
\* and sys.exit(1) when it returned False.
RunStep ==
    /\ pl_pc = "running"
    /\ \E n \in StepNumbers : pl_step_num <= n
    /\ IF \/ pl_step_num \notin StepNumbers
          \/ ~check_step_requirements(pl_step_num, pl_files)
          \/ StepScript(pl_step_num) \notin pl_files
       THEN /\ pl_pc' = "exit1"
            /\ UNCHANGED <<pl_step_num, pl_files, pl_launched>>
       ELSE \E outcome \in Outcomes(pl_step_num) :
               /\ pl_launched' =
                     Append(pl_launched,
                            [step |-> pl_step_num,
                             missing |-> StepInputs(pl_step_num) \ pl_files,
                             started |-> outcome.started,
                             returncode |-> outcome.returncode,
                             succeeded |-> outcome.succeeded])
               /\ pl_files' = IF outcome.wrote
                              THEN pl_files \cup {StepOutput(pl_step_num)}
                              ELSE pl_files
               /\ IF outcome.started /\ run_step(outcome.returncode)
                  THEN pl_step_num' = pl_step_num + 1 /\ UNCHANGED pl_pc
                  ELSE pl_pc' = "exit1" /\ UNCHANGED pl_step_num
    /\ UNCHANGED pl_command

\* The loop is over: the completion message is printed and main returns.
FinishRun ==
    /\ pl_pc = "running"
    /\ \A n \in StepNumbers : pl_step_num > n
    /\ pl_pc' = "exit0"
    /\ UNCHANGED <<pl_command, pl_step_num, pl_files, pl_launched>>

NextP ==
    \/ RunStep /\ UNCHANGED <<varsI, vars1, vars2, vars3, vars4>>
    \/ FinishRun /\ UNCHANGED <<varsI, vars1, vars2, vars3, vars4>>

\* ------------------------------------------------------- pipeline: claims

\* run_step returned False for the k-th subprocess.
ReportedFailure(k) ==
    ~pl_launched[k].started \/ pl_launched[k].returncode # 0

\* The steps were launched one at a time in ascending step number, from
\* step 1 ("all") or from --from-step; none was launched with an input
\* file missing; the step that reported failure is the last one launched
\* and the runner ended with status 1.
RunnerStopsOnReportedFailure ==
    /\ \A k \in 1..(Len(pl_launched) - 1) :
          pl_launched[k + 1].step = pl_launched[k].step + 1
    /\ (pl_launched # <<>> /\ pl_command = "all") => pl_launched[1].step = 1
    /\ \A k \in 1..Len(pl_launched) : pl_launched[k].missing = {}
    /\ \A k \in 1..Len(pl_launched) :
          ReportedFailure(k) => (k = Len(pl_launched) /\ pl_pc = "exit1")
    /\ pl_pc = "exit0" =>
          \A k \in 1..Len(pl_launched) : ~ReportedFailure(k)

\* C24: in "all" and "from" the steps are launched one at a time in
\* ascending step number, never with an input file missing, and none after
\* a step reported failure, the runner then ending with status 1; hence a
\* step is launched after another only when that one completed its work
\* successfully.
C24_LaterStageOnlyAfterSuccess ==
    /\ RunnerStopsOnReportedFailure
    /\ \A k \in 2..Len(pl_launched) : pl_launched[k - 1].succeeded

Idle1 ==
    /\ s1_pc = "idle"
    /\ s1_lines = <<>>
    /\ s1_i = 0
    /\ s1_response = [raised_at |-> 0, text |-> <<>>]
    /\ s1_returned = <<>>
    /\ s1_all_subtitles = <<>>
    /\ s1_oracle_calls = 0
    /\ s1_error = "none"
    /\ s1_output = <<>>
    /\ s1_output_written = FALSE
    /\ s1_debug_file = FALSE

Idle4 ==
    /\ s4_pc = "idle"
    /\ s4_subtitles = <<>>
    /\ s4_response = NoResponse
    /\ s4_groups = <<>>
    /\ s4_validated = <<>>

Next2 ==
    \/ AllocateCue /\ UNCHANGED <<varsI, vars1, vars3, vars4, varsP>>
    \/ ReturnTimes /\ UNCHANGED <<varsI, vars1, vars3, vars4, varsP>>

NextI == ValidateContentIntegrity /\ UNCHANGED <<vars1, vars2, vars3, vars4, varsP>>

InitSplit == Init1 /\ IdleI /\ Idle2 /\ Idle3 /\ Idle4 /\ IdleP

SpecSplit == InitSplit /\ [][Next1]_vars

InitIntegrity == InitI /\ Idle1 /\ Idle2 /\ Idle3 /\ Idle4 /\ IdleP

SpecIntegrity == InitIntegrity /\ [][NextI]_vars

InitTime == Init2 /\ IdleI /\ Idle1 /\ Idle3 /\ Idle4 /\ IdleP

SpecTime == InitTime /\ [][Next2]_vars

Next4 ==
    \/ AnalyzeAndGroup /\ UNCHANGED <<varsI, vars1, vars2, vars3, varsP>>
    \/ GroupingFailed /\ UNCHANGED <<varsI, vars1, vars2, vars3, varsP>>
    \/ ValidateAndSave /\ UNCHANGED <<varsI, vars1, vars2, vars3, varsP>>

InitGroups == Init4 /\ IdleI /\ Idle1 /\ Idle2 /\ Idle3 /\ IdleP

SpecGroups == InitGroups /\ [][Next4]_vars

InitGroupsFour == Init4Four /\ IdleI /\ Idle1 /\ Idle2 /\ Idle3 /\ IdleP

SpecGroupsFour == InitGroupsFour /\ [][Next4]_vars

Next3 ==
    \/ ProcessTimedSubtitles /\ UNCHANGED <<varsI, vars1, vars2, vars4, varsP>>
    \/ ValidateWebvttFile /\ UNCHANGED <<varsI, vars1, vars2, vars4, varsP>>

InitRepair == Init3 /\ IdleI /\ Idle1 /\ Idle2 /\ Idle4 /\ IdleP

SpecRepair == InitRepair /\ [][Next3]_vars

NextCheck == ValidateWebvttFile /\ UNCHANGED <<varsI, vars1, vars2, vars4, varsP>>

InitCheck == Init3Check /\ IdleI /\ Idle1 /\ Idle2 /\ Idle4 /\ IdleP

SpecCheck == InitCheck /\ [][NextCheck]_vars

InitPipeline == InitP /\ IdleI /\ Idle1 /\ Idle2 /\ Idle3 /\ Idle4

SpecPipeline == InitPipeline /\ [][NextP]_vars

InitVtt == Init3Vtt /\ IdleI /\ Idle1 /\ Idle2 /\ Idle4 /\ IdleP

SpecVtt == InitVtt /\ [][Next3]_vars

====
